---- MODULE Spec2Model ----
(***************************************************************************)
(* Model of the Modal component's focus-trap, scroll-lock and dismissal    *)
(* logic (Modal.tsx), driven by the events a host page can produce:        *)
(* parent renders that open, re-render, close or unmount a modal, timer    *)
(* expiry, keyboard events dispatched on document, and DOM changes; and of  *)
(* the Alert component's dismissal logic (Alert.tsx): mount, clicks and     *)
(* keydowns on the dismiss button, the 300 ms removal timer, the end of the *)
(* exit animation, and unmount by the parent; and of the stateless renders  *)
(* (Modal sub-regions, Button, Card), the focusable-element query and the   *)
(* reduced-motion transitions (animations.ts), applied to bounded inputs.   *)
(*                                                                         *)
(* Elements are pairs <<owner, slot>>: owner 0 is the host page, owner m   *)
(* is modal m; slot 0 of the page is document.body, slot 0 of a modal is   *)
(* its dialog container, the other slots are children in document order.   *)
(***************************************************************************)
EXTENDS Integers, Sequences, FiniteSets, TLC

\* ------------------------------------------------------------------ bounds
NumModals == 2
MaxChildren == 2
NumPage == 2
NumNested == 1
MaxDismiss == 4

Modals == 1..NumModals
\* The modals that the focus-restoration environment opens inside one another.
Nested == 1..NumNested
Slots == 1..MaxChildren

\* ---------------------------------------------------------------- elements
Null == <<0 - 1, 0 - 1>>
\* An element that has left the document for good (a removed dialog or child is
\* never re-inserted: a later render creates new elements).
Gone == <<0 - 2, 0 - 2>>
Body == <<0, 0>>
PageElems == {<<0, k>> : k \in 1..NumPage}
Container(m) == <<m, 0>>
Child(m, i) == <<m, i>>
\* The backdrop of modal m, the parent of its dialog container; it is a click
\* target only, never focused.
Backdrop(m) == <<m, 0 - 1>>

NullStyle == "<null>"
OverflowValues == {"", "auto", "scroll", "hidden"}

\* Kinds of child a modal can render in a slot.
Kinds == {"absent", "button", "text"}
EmptyContent == [i \in Slots |-> "absent"]

VARIABLES
    scrollLockCounter,      \* module-level counter
    originalBodyStyle,      \* module-level saved overflow, NullStyle when null
    bodyOverflow,           \* document.body.style.overflow
    activeElement,          \* document.activeElement
    attached,               \* page elements currently in the document
    listeners,              \* 'keydown' listeners on document, in registration order
    domOrder,               \* modals whose dialog is in the DOM, in insertion order
    phase,                  \* per modal: "closed", "open", "exiting"
    props,                  \* per modal: props of the last render
    content,                \* per modal: kind of each child slot
    previousActiveElement,  \* per modal: previousActiveElement.current
    focusTimeout,           \* per modal: the 10 ms timer is pending
    isVisible,              \* per modal: isVisible state
    focusableElements,      \* per modal: focusableElements.current
    handleKeyDown,          \* per modal: the memoised handleKeyDown of the last render
    prevAtOpen,             \* per modal: element focused just before isOpen became true
    pageOverflow,           \* the overflow the host page gave body (set while no modal is open)
    lastEvent               \* what the last event did

\* One Alert instance.
VARIABLES
    alertMounted,           \* "new" (not rendered yet), "mounted", "unmounted"
    alertProps,             \* props of the instance
    alertIsVisible,         \* Alert's isVisible state
    alertIsExiting,         \* Alert's isExiting state
    alertElement,           \* the displayed motion.div: "none", "shown", "exiting"
    alertHandler,           \* the handleDismiss closure carried by the displayed button
    dismissTimers,          \* pending 300 ms timers scheduled by handleDismiss
    dismissScheduled,       \* how many timers handleDismiss has scheduled
    onDismissCalls,         \* how many times onDismiss was invoked
    alertEvent              \* what the last Alert event did

alertVars == <<alertMounted, alertProps, alertIsVisible, alertIsExiting, alertElement,
               alertHandler, dismissTimers, dismissScheduled, onDismissCalls, alertEvent>>

modalVars == <<scrollLockCounter, originalBodyStyle, bodyOverflow, activeElement, attached,
               listeners, domOrder, phase, props, content, previousActiveElement,
               focusTimeout, isVisible, focusableElements, handleKeyDown, prevAtOpen,
               pageOverflow, lastEvent>>

\* The hosting environment and the presentational components.
VARIABLES
    reduceMotion,           \* window.matchMedia('(prefers-reduced-motion: reduce)').matches
    presets,                \* the module-level animation presets, once animations.ts is loaded
    rendered                \* the last render or evaluation: its inputs and its result

renderVars == <<reduceMotion, presets, rendered>>

vars == <<modalVars, alertVars, renderVars>>

\* ------------------------------------------------------------ scroll lock
\* w is the record World (below): the lock reads and writes its fields
\* counter, original and overflow.
lockBodyScrollSaveAlways(w) ==
    [w EXCEPT !.original = w.overflow, !.overflow = "hidden", !.counter = @ + 1]

lockBodyScroll(w) ==
    IF w.counter = 0
    THEN [w EXCEPT !.original = w.overflow, !.overflow = "hidden", !.counter = @ + 1]
    ELSE [w EXCEPT !.counter = @ + 1]

unlockBodyScrollAlways(w) ==
    [w EXCEPT !.counter = @ - 1,
              !.overflow = IF w.original # NullStyle THEN w.original ELSE "",
              !.original = NullStyle]

unlockBodyScroll(w) ==
    LET c == w.counter - 1 IN
    IF c = 0
    THEN IF w.original # NullStyle
         THEN [w EXCEPT !.counter = c, !.overflow = w.original, !.original = NullStyle]
         ELSE [w EXCEPT !.counter = c, !.overflow = ""]
    ELSE [w EXCEPT !.counter = c]

\* -------------------------------------------------------------------- DOM
DomSet == {domOrder[k] : k \in 1..Len(domOrder)}

\* e is connected to the document, given the set of modals whose dialog is mounted.
InDocument(e, doms) ==
    IF e = Body THEN TRUE
    ELSE IF e[1] = 0 THEN e \in attached
    ELSE e[1] \in doms /\ (e[2] = 0 \/ content[e[1]][e[2]] # "absent")

\* HTMLElement.focus() has an effect on e: page controls, a dialog container
\* (tabIndex -1) and buttons; not document.body, not plain text.
CanFocus(e, doms) ==
    /\ e # Null
    /\ e # Body
    /\ InDocument(e, doms)
    /\ (e[1] # 0 /\ e[2] # 0) => content[e[1]][e[2]] = "button"

\* document.activeElement after e.focus() when it was cur.
Focus(e, cur, doms) == IF CanFocus(e, doms) THEN e ELSE cur

\* document.activeElement after the elements outside the document lost focus.
Blur(cur, doms) == IF InDocument(cur, doms) THEN cur ELSE Body

\* The selector list and the visibility filter, applied to one child.
MatchesSelector(kind) == kind = "button"
IsShown(kind) == kind # "absent"

getFocusableElements(m) ==
    SelectSeq([i \in Slots |-> Child(m, i)],
              LAMBDA e : MatchesSelector(content[m][e[2]]) /\ IsShown(content[m][e[2]]))

\* References held to the elements of modal m (to element e) once those have
\* left the document: refs is a function from modals to elements, fs a list.
ForgetModal(refs, m) == [x \in DOMAIN refs |-> IF refs[x][1] = m THEN Gone ELSE refs[x]]
ForgetElem(refs, e) == [x \in DOMAIN refs |-> IF refs[x] = e THEN Gone ELSE refs[x]]
ForgetInList(fs, e) == [k \in DOMAIN fs |-> IF fs[k] = e THEN Gone ELSE fs[k]]
AllGone(fs) == [k \in DOMAIN fs |-> Gone]

\* modalRef.current: the dialog element, unless the consumer's forwarded ref
\* took the ref attribute (ref={ref || modalRef}) or the dialog is not mounted.
modalRefCurrent(m, doms) ==
    IF props[m].hasRef \/ m \notin doms THEN Null ELSE Container(m)

firstFocusableElement(fs) == IF Len(fs) > 0 THEN fs[1] ELSE Null
lastFocusableElement(fs) == IF Len(fs) > 0 THEN fs[Len(fs)] ELSE Null

updateFocusableElements(w, m, doms) ==
    IF modalRefCurrent(m, doms) = Null THEN w
    ELSE [w EXCEPT !.focusable[m] = getFocusableElements(m)]

\* initialFocusRef?.current and finalFocusRef?.current
initialFocusRefCurrent(m) ==
    IF props[m].initialFocusRef # 0 /\ content[m][props[m].initialFocusRef] # "absent"
    THEN Child(m, props[m].initialFocusRef) ELSE Null

finalFocusRefCurrent(m) ==
    IF props[m].finalFocusRef \in attached THEN props[m].finalFocusRef ELSE Null

\* ----------------------------------------------- browser sequential focus
RECURSIVE DialogsInOrder(_)
DialogsInOrder(ds) ==
    IF ds = <<>> THEN <<>>
    ELSE <<Container(Head(ds))>>
         \o SelectSeq([i \in Slots |-> Child(Head(ds), i)],
                      LAMBDA e : content[e[1]][e[2]] # "absent")
         \o DialogsInOrder(Tail(ds))

\* Every element of the document in tree order: the page's controls, then the
\* portals appended to document.body in insertion order.
DocOrder ==
    <<Body>> \o SelectSeq([k \in 1..NumPage |-> <<0, k>>], LAMBDA e : e \in attached)
             \o DialogsInOrder(domOrder)

Tabbable(e) == e[2] # 0 /\ (e[1] # 0 => content[e[1]][e[2]] = "button")

IndexOf(seq, e) == CHOOSE k \in 1..Len(seq) : seq[k] = e

\* Where the browser's default Tab / Shift+Tab moves focus from e: the next
\* (previous) tabbable element in document order, cyclically.
DefaultTabTarget(e, shift) ==
    LET d == DocOrder
        n == Len(d)
        k == IndexOf(d, e)
        tab == {j \in 1..n : Tabbable(d[j])}
        after == {j \in tab : j > k}
        before == {j \in tab : j < k}
        Min(S) == CHOOSE x \in S : \A y \in S : x <= y
        Max(S) == CHOOSE x \in S : \A y \in S : x >= y
    IN  IF tab = {} THEN e
        ELSE IF shift
             THEN d[IF before # {} THEN Max(before) ELSE Max(tab)]
             ELSE d[IF after # {} THEN Min(after) ELSE Min(tab)]

\* ------------------------------------------------------------- the effect
World ==
    [counter |-> scrollLockCounter, original |-> originalBodyStyle,
     overflow |-> bodyOverflow, active |-> activeElement, listeners |-> listeners,
     prev |-> previousActiveElement, timeout |-> focusTimeout, visible |-> isVisible,
     focusable |-> focusableElements, restored |-> FALSE]

addEventListener(ls, h) ==
    IF \E k \in 1..Len(ls) : ls[k] = h THEN ls ELSE Append(ls, h)

removeEventListenerNothing(ls, h) == ls

removeEventListener(ls, h) == SelectSeq(ls, LAMBDA x : x # h)

\* clearTimeout(focusTimeout) on the pending-timer flags t.
clearTimeoutNothing(t, m) == t

clearTimeout(t, m) == [t EXCEPT ![m] = FALSE]

\* The body of the focus-management effect when isOpen is true; h is the
\* handleKeyDown of the render that scheduled the effect.
EffectSetupNoCapture(w, m, h) ==
    [lockBodyScroll(w) EXCEPT !.listeners = addEventListener(@, h), !.timeout[m] = TRUE]

EffectSetup(w, m, h) ==
    LET w1 == [w EXCEPT !.prev[m] = w.active]
        w2 == lockBodyScroll(w1)
    IN  [w2 EXCEPT !.listeners = addEventListener(@, h), !.timeout[m] = TRUE]

\* What the cleanup does to focus; final is finalFocusRef?.current.
RestoreFocusPreviousFirst(w, m, final, doms) ==
    IF w.prev[m] # Null
    THEN [w EXCEPT !.active = Focus(w.prev[m], w.active, doms), !.restored = TRUE]
    ELSE IF final # Null
    THEN [w EXCEPT !.active = Focus(final, w.active, doms), !.restored = TRUE]
    ELSE w

RestoreFocus(w, m, final, doms) ==
    IF final # Null
    THEN [w EXCEPT !.active = Focus(final, w.active, doms), !.restored = TRUE]
    ELSE IF w.prev[m] # Null
    THEN [w EXCEPT !.active = Focus(w.prev[m], w.active, doms), !.restored = TRUE]
    ELSE w

\* The cleanup returned by the effect, for the closure that captured handler h.
EffectCleanup(w, m, h, final, doms) ==
    LET w1 == [w EXCEPT !.timeout = clearTimeout(@, m),
                        !.listeners = removeEventListener(@, h)]
        w2 == unlockBodyScroll(w1)
        w3 == [w2 EXCEPT !.visible[m] = FALSE]
    IN  RestoreFocus(w3, m, final, doms)

\* The callback of the 10 ms timer.
FocusTimeoutCallback(w, m, doms) ==
    LET w1 == updateFocusableElements([w EXCEPT !.visible[m] = TRUE], m, doms)
        init == initialFocusRefCurrent(m)
        first == firstFocusableElement(w1.focusable[m])
    IN  IF init # Null THEN [w1 EXCEPT !.active = Focus(init, @, doms)]
        ELSE IF first # Null THEN [w1 EXCEPT !.active = Focus(first, @, doms)]
        ELSE [w1 EXCEPT !.active = Focus(modalRefCurrent(m, doms), @, doms)]

\* ------------------------------------------------------------ handleKeyDown
\* event.key === 'Escape' && closeOnEscape
ClosesOnEscapeAlways(h, key) == key = "Escape"

ClosesOnEscape(h, key) == key = "Escape" /\ h.closeOnEscape

\* focusableElements.current.length === 0
SuppressesTabNever(fs) == FALSE

SuppressesTab(fs) == Len(fs) = 0

\* One run of modal h.m's handleKeyDown on a keydown event. d is the dispatch
\* state: the world, whether preventDefault was called, and one entry per
\* handler run (what that handler saw and did).
HandleKeyDownClosesItself(d, h, key, shift, doms) ==
    LET step(prevented, closed) ==
            [m |-> h.m, before |-> d.w.active, after |-> d.w.active,
             prevented |-> prevented, closed |-> closed]
    IN  IF h.isOpen /\ ClosesOnEscape(h, key)
        THEN [d EXCEPT !.w = unlockBodyScroll([d.w EXCEPT !.listeners =
                                                   removeEventListener(@, h)]),
                       !.prevented = TRUE,
                       !.steps = Append(@, step(TRUE, TRUE))]
        ELSE [d EXCEPT !.steps = Append(@, step(FALSE, FALSE))]

HandleKeyDown(d, h, key, shift, doms) ==
    LET step(after, prevented, closed) ==
            [m |-> h.m, before |-> d.w.active, after |-> after,
             prevented |-> prevented, closed |-> closed]
        w1 == updateFocusableElements(d.w, h.m, doms)
        fs == w1.focusable[h.m]
        first == firstFocusableElement(fs)
        last == lastFocusableElement(fs)
    IN  IF ~h.isOpen
        THEN [d EXCEPT !.steps = Append(@, step(d.w.active, FALSE, FALSE))]
        ELSE IF ClosesOnEscape(h, key)
        THEN [d EXCEPT !.prevented = TRUE,
                       !.steps = Append(@, step(d.w.active, TRUE, TRUE))]
        ELSE IF key = "Tab"
        THEN IF SuppressesTab(fs)
             THEN [d EXCEPT !.w = w1, !.prevented = TRUE,
                            !.steps = Append(@, step(d.w.active, TRUE, FALSE))]
             ELSE IF shift /\ d.w.active = first
             THEN [d EXCEPT !.w = [w1 EXCEPT !.active = Focus(last, @, doms)],
                            !.prevented = TRUE,
                            !.steps = Append(@, step(Focus(last, d.w.active, doms),
                                                     TRUE, FALSE))]
             ELSE IF ~shift /\ d.w.active = last
             THEN [d EXCEPT !.w = [w1 EXCEPT !.active = Focus(first, @, doms)],
                            !.prevented = TRUE,
                            !.steps = Append(@, step(Focus(first, d.w.active, doms),
                                                     TRUE, FALSE))]
             ELSE [d EXCEPT !.w = w1,
                            !.steps = Append(@, step(d.w.active, FALSE, FALSE))]
        ELSE [d EXCEPT !.steps = Append(@, step(d.w.active, FALSE, FALSE))]

\* ------------------------------------------------------ handleBackdropClick
\* backdropRef.current
backdropRefCurrent(m, doms) == IF m \in doms THEN Backdrop(m) ELSE Null

\* closeOnBackdropClick && event.target === backdropRef.current
ClosesOnAnyClick(p, m, target, doms) == p.closeOnBackdropClick

ClosesOnBackdropClick(p, m, target, doms) ==
    p.closeOnBackdropClick /\ target = backdropRefCurrent(m, doms)

\* One run of modal m's handleBackdropClick, rendered with props p, on a click
\* whose target is target: what it saw and whether it invoked onClose.
handleBackdropClick(p, m, target, doms) ==
    [m |-> m, before |-> activeElement, after |-> activeElement, prevented |-> FALSE,
     closed |-> ClosesOnBackdropClick(p, m, target, doms)]

\* document dispatches the event to its listeners in registration order.
RECURSIVE Dispatch(_, _, _, _, _)
Dispatch(d, ls, key, shift, doms) ==
    IF ls = <<>> THEN d
    ELSE Dispatch(HandleKeyDown(d, Head(ls), key, shift, doms), Tail(ls), key, shift, doms)

\* ------------------------------------------------- Modal sub-region components
\* createContext<ModalContextValue | null>(null): the default value, which is
\* what useContext returns outside every Modal.
NoContext == [provided |-> FALSE, onClose |-> 0, titleId |-> 0]

\* contextValue of Modal m
contextValue(m) == [provided |-> TRUE, onClose |-> m, titleId |-> m]

\* useContext(ModalContext) in a component rendered inside Modal number
\* inside, 0 when no Modal encloses it.
useContext(inside) == IF inside = 0 THEN NoContext ELSE contextValue(inside)

\* The outcome of a render that threw: nothing is rendered.
Threw(message) ==
    [threw |-> TRUE, error |-> message, tag |-> "none", closeButton |-> FALSE, onClick |-> 0]

Rendered(tag, closeButton, onClick) ==
    [threw |-> FALSE, error |-> "", tag |-> tag, closeButton |-> closeButton,
     onClick |-> onClick]

SubRegionProps == [showCloseButton : BOOLEAN]

ModalHeader(inside, p) ==
    LET context == useContext(inside) IN
    IF ~context.provided
    THEN Threw("ModalHeader must be used within a Modal component")
    ELSE Rendered("div", p.showCloseButton,
                  IF p.showCloseButton THEN context.onClose ELSE 0)

ModalBody(inside, p) ==
    LET context == useContext(inside) IN
    IF ~context.provided
    THEN Threw("ModalBody must be used within a Modal component")
    ELSE Rendered("div", FALSE, 0)

ModalFooterUnchecked(inside, p) == Rendered("div", FALSE, 0)

ModalFooter(inside, p) ==
    LET context == useContext(inside) IN
    IF ~context.provided
    THEN Threw("ModalFooter must be used within a Modal component")
    ELSE Rendered("div", FALSE, 0)

SubRegions == {"ModalHeader", "ModalBody", "ModalFooter"}

SubRegion(name, inside, p) ==
    IF name = "ModalHeader" THEN ModalHeader(inside, p)
    ELSE IF name = "ModalBody" THEN ModalBody(inside, p)
    ELSE ModalFooter(inside, p)

\* Before anything was rendered.
NoRender == [kind |-> "none"]

\* A sub-region component is rendered inside Modal number inside (0: outside
\* every Modal).
RenderSubRegion(name, inside, p) ==
    /\ rendered' = [kind |-> "subregion", name |-> name, inside |-> inside, props |-> p,
                    out |-> SubRegion(name, inside, p)]
    /\ UNCHANGED <<reduceMotion, presets>>
    /\ UNCHANGED <<modalVars, alertVars>>

\* ------------------------------------------------- reduced-motion transitions
\* Durations in milliseconds.
FastDuration == 150
BaseDuration == 300
ReducedDuration == 10
AlertDuration == 300
AlertReducedDuration == 100

\* transitions.fast, transitions.base
transitions ==
    [fast |-> [duration |-> FastDuration, ease |-> "standard"],
     base |-> [duration |-> BaseDuration, ease |-> "standard"]]

\* shouldReduceMotion(), in a browser whose preference is pref.
shouldReduceMotion(pref) == pref

getTransition(transition, pref) ==
    IF shouldReduceMotion(pref)
    THEN [transition EXCEPT !.duration = ReducedDuration]
    ELSE transition

\* The transitions of the Modal's presets and the transition each is built from.
PresetNames ==
    {"modalBackdrop.animate", "modalBackdrop.exit", "modalEnter.animate", "modalEnter.exit"}

PresetSource(name) == IF name = "modalEnter.exit" THEN transitions.fast ELSE transitions.base

\* The presets are module-level constants: getTransition runs once, when
\* animations.ts is evaluated, with the preference of that moment.
NotLoaded == [loaded |-> FALSE, t |-> [n \in PresetNames |-> PresetSource(n)]]

ModulePresets(pref) ==
    [loaded |-> TRUE, t |-> [n \in PresetNames |-> getTransition(PresetSource(n), pref)]]

\* The transition prop the Alert builds in its render.
AlertBaseTransition == [duration |-> AlertDuration, ease |-> "easeOut"]

AlertTransition(pref) ==
    IF pref
    THEN [AlertBaseTransition EXCEPT !.duration = AlertReducedDuration, !.ease = "linear"]
    ELSE AlertBaseTransition

\* animations.ts is imported for the first time.
LoadAnimations ==
    /\ ~presets.loaded
    /\ presets' = ModulePresets(reduceMotion)
    /\ UNCHANGED <<reduceMotion, rendered>>
    /\ UNCHANGED <<modalVars, alertVars>>

\* The user changes the platform's reduced-motion preference.
SetReducedMotion(b) ==
    /\ b # reduceMotion
    /\ reduceMotion' = b
    /\ UNCHANGED <<presets, rendered>>
    /\ UNCHANGED <<modalVars, alertVars>>

\* A transition is evaluated: what it was built from, the preference at that
\* moment, and the transition obtained.
Evaluated(source, base, out) ==
    [kind |-> "transition", source |-> source, base |-> base, reduce |-> reduceMotion,
     out |-> out]

\* getTransition is called on transition t.
CallGetTransition(t) ==
    /\ rendered' = Evaluated("getTransition", t, getTransition(t, reduceMotion))
    /\ UNCHANGED <<reduceMotion, presets>>
    /\ UNCHANGED <<modalVars, alertVars>>

\* A Modal renders with preset transition n.
UsePreset(n) ==
    /\ presets.loaded
    /\ rendered' = Evaluated(n, PresetSource(n), presets.t[n])
    /\ UNCHANGED <<reduceMotion, presets>>
    /\ UNCHANGED <<modalVars, alertVars>>

\* An Alert renders its motion.div.
RenderAlertTransition ==
    /\ rendered' = Evaluated("Alert", AlertBaseTransition, AlertTransition(reduceMotion))
    /\ UNCHANGED <<reduceMotion, presets>>
    /\ UNCHANGED <<modalVars, alertVars>>

\* ------------------------------------------------------------------- Button
\* A prop the caller did not pass.
Undefined == "<undefined>"

\* value = default in the destructured props
WithDefault(value, default) == IF value = Undefined THEN default ELSE value

\* [ ... ].filter(Boolean): "" stands for every falsy entry.
FilterBoolean(classes) == SelectSeq(classes, LAMBDA c : c # "")

ClassesOf(classes) == {classes[k] : k \in 1..Len(classes)}

\* The boolean props default to false: not passing one is passing FALSE.
ButtonPropsSet ==
    [variant : {Undefined, "secondary"}, size : {Undefined, "lg"},
     loading : BOOLEAN, disabled : BOOLEAN,
     disableAnimations : BOOLEAN, leftIcon : BOOLEAN, rightIcon : BOOLEAN]

\* const isDisabled = disabled || loading
ButtonIsDisabledIgnoresLoading(disabled, loading) == disabled

ButtonIsDisabled(disabled, loading) == disabled \/ loading

Button(p) ==
    LET variant == WithDefault(p.variant, "primary")
        size == WithDefault(p.size, "md")
        loading == p.loading
        disabled == p.disabled
        isDisabled == ButtonIsDisabled(disabled, loading)
    IN  [tag |-> "button",
         classes |-> FilterBoolean(<<"zyfi-components", "button",
                                     IF variant = "primary" THEN "variant-primary"
                                                            ELSE "variant-secondary",
                                     IF size = "md" THEN "size-md" ELSE "size-lg",
                                     IF loading THEN "loading" ELSE "",
                                     IF isDisabled THEN "disabled" ELSE "">>),
         disabled |-> isDisabled,
         ariaBusy |-> loading,
         ariaDisabled |-> isDisabled,
         variants |-> ~p.disableAnimations,
         whileHover |-> ~isDisabled /\ ~p.disableAnimations,
         whileTap |-> ~isDisabled /\ ~p.disableAnimations,
         spinner |-> loading,
         leftIcon |-> ~loading /\ p.leftIcon,
         rightIcon |-> ~loading /\ p.rightIcon]

RenderButton(p) ==
    /\ rendered' = [kind |-> "button", props |-> p, out |-> Button(p)]
    /\ UNCHANGED <<reduceMotion, presets>>
    /\ UNCHANGED <<modalVars, alertVars>>

\* --------------------------------------------------------------------- Card
CardPropsSet ==
    [onClick : BOOLEAN, elevation : {Undefined, "low", "high"},
     padding : {Undefined, "sm", "lg"}, hover : BOOLEAN,
     className : {Undefined, "custom-class"}]

\* const isInteractive = Boolean(onClick)
CardIsInteractiveNever(p) == FALSE

CardIsInteractive(p) == p.onClick

\* styles[`elevation-${elevation}`], styles[`padding-${padding}`]
ElevationClass(elevation) ==
    IF elevation = "low" THEN "elevation-low"
    ELSE IF elevation = "medium" THEN "elevation-medium" ELSE "elevation-high"

PaddingClass(padding) ==
    IF padding = "sm" THEN "padding-sm"
    ELSE IF padding = "md" THEN "padding-md" ELSE "padding-lg"

Card(p) ==
    LET elevation == WithDefault(p.elevation, "medium")
        padding == WithDefault(p.padding, "md")
        hover == p.hover
        isInteractive == CardIsInteractive(p)
        cardClasses == FilterBoolean(<<"zyfi-components", "card",
                                       ElevationClass(elevation), PaddingClass(padding),
                                       IF hover THEN "hover" ELSE "",
                                       IF isInteractive THEN "interactive" ELSE "",
                                       IF p.className = Undefined THEN "" ELSE p.className>>)
    IN  IF isInteractive
        THEN [tag |-> "button", type |-> "button", onClick |-> TRUE,
              classes |-> cardClasses, whileHover |-> TRUE]
        ELSE [tag |-> "div", type |-> "", onClick |-> FALSE,
              classes |-> cardClasses, whileHover |-> hover]

RenderCard(p) ==
    /\ rendered' = [kind |-> "card", props |-> p, out |-> Card(p)]
    /\ UNCHANGED <<reduceMotion, presets>>
    /\ UNCHANGED <<modalVars, alertVars>>

\* ---------------------------------------------------- focusable-element query
\* An element as the query sees it: its tag, the attributes the selectors
\* test, and whether (and how) it is hidden.
El(tag, disabled, tabindex, hidden) ==
    [tag |-> tag, disabled |-> disabled, href |-> tag = "a", tabindex |-> tabindex,
     hidden |-> hidden]

PlainButton == El("button", FALSE, "none", "no")
PlainText == El("span", FALSE, "none", "no")

ElementSamples ==
    {PlainButton, PlainText,
     El("button", TRUE, "none", "no"), El("button", FALSE, "-1", "no"),
     El("button", FALSE, "none", "display"), El("button", FALSE, "none", "visibility"),
     El("button", FALSE, "none", "aria-hidden"),
     El("a", FALSE, "none", "no"), El("a", FALSE, "-1", "no"),
     El("div", FALSE, "0", "no"), El("div", FALSE, "-1", "no"),
     El("input", TRUE, "0", "no")}

\* element.matches(focusableSelectors), for the selectors these tags can match
MatchesFocusableSelectors(el) ==
    \/ el.tag \in {"button", "input", "textarea", "select", "summary"} /\ ~el.disabled
    \/ el.tag = "details"
    \/ el.tag = "a" /\ el.href
    \/ el.tabindex # "none" /\ el.tabindex # "-1"

\* display !== 'none' && visibility !== 'hidden' && !hasAttribute('aria-hidden')
PassesVisibilityFilter(el) ==
    el.hidden # "display" /\ el.hidden # "visibility" /\ el.hidden # "aria-hidden"

\* getFocusableElements(container) for a container whose descendants are, in
\* document order, children: the positions of the elements returned (the
\* container itself is position 0).
FocusableAmong(children) ==
    SelectSeq([k \in 1..Len(children) |-> k],
              LAMBDA k : MatchesFocusableSelectors(children[k])
                         /\ PassesVisibilityFilter(children[k]))

\* The descendants a container can have.
ChildLists == UNION {[1..n -> ElementSamples] : n \in 0..MaxChildren}

QueryFocusable(children) ==
    /\ rendered' = [kind |-> "focusable", children |-> children,
                    out |-> FocusableAmong(children)]
    /\ UNCHANGED <<reduceMotion, presets>>
    /\ UNCHANGED <<modalVars, alertVars>>

\* ------------------------------------------------------------------ Alert
AlertKeys == {"Enter", " ", "Escape"}

\* dismissible = false, onDismiss not supplied
DefaultAlertProps == [dismissible |-> FALSE, hasOnDismiss |-> FALSE]

AlertPropsSet == [dismissible : BOOLEAN, hasOnDismiss : BOOLEAN]

\* The handleDismiss / handleKeyDown closures of a render with props p in
\* which isExiting had the value exiting.
AlertHandlerOf(p, exiting) == [dismissible |-> p.dismissible, isExiting |-> exiting]

\* The state handleDismiss and the timer callback read and write.
AlertWorld ==
    [mounted |-> alertMounted = "mounted", isVisible |-> alertIsVisible,
     isExiting |-> alertIsExiting, timers |-> dismissTimers,
     scheduled |-> dismissScheduled, calls |-> onDismissCalls,
     hasOnDismiss |-> alertProps.hasOnDismiss]

\* if (!dismissible || isExiting) return
DismissAcceptedAnyAlert(h) == ~h.isExiting

DismissAccepted(h) == h.dismissible /\ ~h.isExiting

\* setIsExiting(true); setTimeout(..., 300)
handleDismissRemovesAtOnce(a, h) ==
    IF ~DismissAccepted(h) THEN a
    ELSE [a EXCEPT !.isVisible = FALSE, !.isExiting = TRUE]

handleDismiss(a, h) ==
    IF ~DismissAccepted(h) THEN a
    ELSE [a EXCEPT !.isExiting = TRUE, !.timers = @ + 1, !.scheduled = @ + 1]

\* (event.key === 'Enter' || event.key === ' ') && dismissible
DismissKey(h, key) == key \in {"Enter", " "} /\ h.dismissible

\* Alert's handleKeyDown: the resulting state and whether preventDefault ran.
AlertHandleKeyDown(a, h, key) ==
    IF DismissKey(h, key)
    THEN [a |-> handleDismiss(a, h), prevented |-> TRUE]
    ELSE [a |-> a, prevented |-> FALSE]

\* The callback of a 300 ms timer: setIsVisible(false), which React ignores
\* for an unmounted component, then onDismiss?.()
DismissTimerCallbackSilent(a) ==
    [a EXCEPT !.timers = @ - 1, !.isVisible = IF a.mounted THEN FALSE ELSE @]

DismissTimerCallback(a) ==
    [a EXCEPT !.timers = @ - 1,
              !.isVisible = IF a.mounted THEN FALSE ELSE @,
              !.calls = IF a.hasOnDismiss THEN @ + 1 ELSE @]

\* What a render displays: nothing once isVisible is false; the motion.div of
\* this render while isExiting is false; and once isExiting is true the child
\* AnimatePresence already had, kept as it was last rendered until its exit
\* animation ends.
AlertRenderElement(a, elem) ==
    IF ~a.mounted THEN "none"
    ELSE IF ~a.isVisible THEN "none"
    ELSE IF ~a.isExiting THEN "shown"
    ELSE IF elem = "none" THEN "none" ELSE "exiting"

\* The handlers on the displayed dismiss button: those of the last render that
\* created the displayed element.
AlertRenderHandler(a, p, h) ==
    IF a.mounted /\ a.isVisible /\ ~a.isExiting THEN AlertHandlerOf(p, a.isExiting) ELSE h

NoAlertEvent ==
    [kind |-> "init", key |-> "", accepted |-> FALSE, prevented |-> FALSE,
     invoked |-> FALSE, mounted |-> FALSE]

\* The state updates are applied and the component re-renders.
AlertCommit(a) ==
    /\ alertIsVisible' = a.isVisible
    /\ alertIsExiting' = a.isExiting
    /\ dismissTimers' = a.timers
    /\ dismissScheduled' = a.scheduled
    /\ onDismissCalls' = a.calls
    /\ alertElement' = AlertRenderElement(a, alertElement)
    /\ alertHandler' = AlertRenderHandler(a, alertProps, alertHandler)

\* The parent mounts the Alert.
AlertMount(p) ==
    /\ alertMounted = "new"
    /\ alertMounted' = "mounted"
    /\ alertProps' = p
    /\ alertIsVisible' = TRUE
    /\ alertIsExiting' = FALSE
    /\ alertElement' = "shown"
    /\ alertHandler' = AlertHandlerOf(p, FALSE)
    /\ alertEvent' = [NoAlertEvent EXCEPT !.kind = "mount", !.mounted = TRUE]
    /\ UNCHANGED <<dismissTimers, dismissScheduled, onDismissCalls>>
    /\ UNCHANGED <<modalVars, renderVars>>

\* A click runs the handleDismiss carried by the displayed element (the
\* dismiss button's onClick; an alert that is not dismissible renders no
\* button, and the handler's own guard is what the run then shows).
AlertClick ==
    /\ alertElement # "none"
    /\ dismissScheduled < MaxDismiss
    /\ LET a == handleDismiss(AlertWorld, alertHandler)
       IN  /\ AlertCommit(a)
           /\ alertEvent' = [NoAlertEvent EXCEPT !.kind = "click", !.mounted = TRUE,
                                                 !.accepted = a # AlertWorld]
    /\ UNCHANGED <<alertMounted, alertProps>>
    /\ UNCHANGED <<modalVars, renderVars>>

\* A keydown runs the handleKeyDown carried by the displayed element.
AlertKeyDown(key) ==
    /\ alertElement # "none"
    /\ dismissScheduled < MaxDismiss
    /\ LET r == AlertHandleKeyDown(AlertWorld, alertHandler, key)
       IN  /\ AlertCommit(r.a)
           /\ alertEvent' = [NoAlertEvent EXCEPT !.kind = "keydown", !.key = key,
                                                 !.mounted = TRUE,
                                                 !.accepted = r.a # AlertWorld,
                                                 !.prevented = r.prevented]
    /\ UNCHANGED <<alertMounted, alertProps>>
    /\ UNCHANGED <<modalVars, renderVars>>

\* A 300 ms timer scheduled by handleDismiss fires.
DismissTimerFires ==
    /\ dismissTimers > 0
    /\ AlertCommit(DismissTimerCallback(AlertWorld))
    /\ alertEvent' = [NoAlertEvent EXCEPT !.kind = "timer",
                                          !.mounted = alertMounted = "mounted",
                                          !.invoked = alertProps.hasOnDismiss]
    /\ UNCHANGED <<alertMounted, alertProps>>
    /\ UNCHANGED <<modalVars, renderVars>>

\* The exit animation of the displayed element ends: AnimatePresence removes it.
AlertExitComplete ==
    /\ alertElement = "exiting"
    /\ alertElement' = "none"
    /\ alertEvent' = [NoAlertEvent EXCEPT !.kind = "exit", !.mounted = TRUE]
    /\ UNCHANGED <<alertMounted, alertProps, alertIsVisible, alertIsExiting, alertHandler,
                   dismissTimers, dismissScheduled, onDismissCalls>>
    /\ UNCHANGED <<modalVars, renderVars>>

\* The parent unmounts the Alert. Alert has no effect cleanup: pending timers
\* stay scheduled.
AlertUnmount ==
    /\ alertMounted = "mounted"
    /\ alertMounted' = "unmounted"
    /\ alertElement' = "none"
    /\ alertEvent' = [NoAlertEvent EXCEPT !.kind = "unmount"]
    /\ UNCHANGED <<alertProps, alertIsVisible, alertIsExiting, alertHandler,
                   dismissTimers, dismissScheduled, onDismissCalls>>
    /\ UNCHANGED <<modalVars, renderVars>>

\* ----------------------------------------------------------------- actions
Keys == {"Tab", "Escape"}

DefaultProps ==
    [closeOnEscape |-> TRUE, closeOnBackdropClick |-> TRUE, hasRef |-> FALSE,
     initialFocusRef |-> 0, finalFocusRef |-> Null]

\* The handleKeyDown closure of a render of modal m.
Handler(m, id, open, esc) ==
    [m |-> m, id |-> id, isOpen |-> open, closeOnEscape |-> esc]

\* A render that re-creates handleKeyDown yields a function identical to no
\* listener still registered: the least identity not in use names it.
FreshId(ls, m) ==
    LET used == {ls[k].id : k \in {j \in 1..Len(ls) : ls[j].m = m}}
    IN  CHOOSE i \in 0..Len(ls) : i \notin used /\ \A j \in 0..(i - 1) : j \in used

NoEvent ==
    [kind |-> "init", m |-> 0, key |-> "", shift |-> FALSE, prevented |-> FALSE,
     steps |-> <<>>, restored |-> FALSE, target |-> Null, cancelled |-> FALSE]

\* Events that neither run a handler nor a cleanup leave nothing to observe.
OtherEvent == [NoEvent EXCEPT !.kind = "other"]

AnyOpen == \E m \in Modals : phase[m] = "open"

Init ==
    /\ scrollLockCounter = 0
    /\ originalBodyStyle = NullStyle
    /\ bodyOverflow = ""
    /\ activeElement = <<0, 1>>
    /\ attached = PageElems
    /\ listeners = <<>>
    /\ domOrder = <<>>
    /\ phase = [m \in Modals |-> "closed"]
    /\ props = [m \in Modals |-> DefaultProps]
    /\ content = [m \in Modals |-> EmptyContent]
    /\ previousActiveElement = [m \in Modals |-> Null]
    /\ focusTimeout = [m \in Modals |-> FALSE]
    /\ isVisible = [m \in Modals |-> FALSE]
    /\ focusableElements = [m \in Modals |-> <<>>]
    /\ handleKeyDown = [m \in Modals |-> Handler(m, 0, FALSE, TRUE)]
    /\ prevAtOpen = [m \in Modals |-> Null]
    /\ pageOverflow = ""
    /\ lastEvent = NoEvent
    /\ alertMounted = "new"
    /\ alertProps = DefaultAlertProps
    /\ alertIsVisible = TRUE
    /\ alertIsExiting = FALSE
    /\ alertElement = "none"
    /\ alertHandler = AlertHandlerOf(DefaultAlertProps, FALSE)
    /\ dismissTimers = 0
    /\ dismissScheduled = 0
    /\ onDismissCalls = 0
    /\ alertEvent = NoAlertEvent
    /\ reduceMotion = FALSE
    /\ presets = NotLoaded
    /\ rendered = NoRender

\* The variables the effect writes, from the world it leaves.
Commit(w) ==
    /\ scrollLockCounter' = w.counter
    /\ originalBodyStyle' = w.original
    /\ bodyOverflow' = w.overflow
    /\ activeElement' = w.active
    /\ listeners' = w.listeners
    /\ previousActiveElement' = w.prev
    /\ focusTimeout' = w.timeout
    /\ isVisible' = w.visible
    /\ focusableElements' = w.focusable

\* The parent renders modal m with isOpen true, props p and children c; the
\* dialog is inserted and the effect runs. Whether a ref is forwarded is fixed
\* for the life of an instance: one that has computed a focusable list did so
\* through its own modalRef and still has no forwarded ref.
Open(m, p, c) ==
    /\ phase[m] = "closed"
    /\ p.hasRef => focusableElements[m] = <<>>
    /\ LET h == Handler(m, FreshId(listeners, m), TRUE, p.closeOnEscape)
           w == EffectSetup(World, m, h)
       IN  /\ Commit(w)
           /\ handleKeyDown' = [handleKeyDown EXCEPT ![m] = h]
    /\ phase' = [phase EXCEPT ![m] = "open"]
    /\ props' = [props EXCEPT ![m] = p]
    /\ content' = [content EXCEPT ![m] = c]
    /\ domOrder' = Append(domOrder, m)
    /\ prevAtOpen' = [prevAtOpen EXCEPT ![m] = activeElement]
    /\ lastEvent' = OtherEvent
    /\ UNCHANGED <<attached, pageOverflow>>
    /\ UNCHANGED <<alertVars, renderVars>>

\* The parent renders modal m with isOpen false: the effect's cleanup runs and
\* the dialog starts its exit animation. previousActiveElement.current is dead
\* once the cleanup has read it (the next effect run overwrites it before any
\* read), so the stale reference is dropped here to keep the state space small.
Close(m) ==
    /\ phase[m] = "open"
    /\ LET w == EffectCleanup(World, m, handleKeyDown[m], finalFocusRefCurrent(m), DomSet)
       IN  /\ Commit([w EXCEPT !.prev[m] = Null])
           /\ lastEvent' = [NoEvent EXCEPT !.kind = "close", !.m = m,
                                           !.restored = w.restored,
                                           !.target = prevAtOpen[m],
                                           !.cancelled = focusTimeout[m]]
    /\ handleKeyDown' = [handleKeyDown EXCEPT ![m] = Handler(m, 0, FALSE, TRUE)]
    /\ phase' = [phase EXCEPT ![m] = "exiting"]
    /\ prevAtOpen' = [prevAtOpen EXCEPT ![m] = Null]
    /\ UNCHANGED <<attached, domOrder, props, content, pageOverflow>>
    /\ UNCHANGED <<alertVars, renderVars>>

\* The exit animation of a closed modal ends and its dialog leaves the DOM.
ExitComplete(m) ==
    /\ phase[m] = "exiting"
    /\ LET ds == SelectSeq(domOrder, LAMBDA x : x # m)
       IN  /\ domOrder' = ds
           /\ activeElement' = IF activeElement[1] = m THEN Body ELSE activeElement
    /\ phase' = [phase EXCEPT ![m] = "closed"]
    /\ props' = [props EXCEPT ![m] = DefaultProps]
    /\ content' = [content EXCEPT ![m] = EmptyContent]
    /\ lastEvent' = OtherEvent
    /\ previousActiveElement' = ForgetModal(previousActiveElement, m)
    /\ prevAtOpen' = ForgetModal(prevAtOpen, m)
    /\ focusableElements' = [focusableElements EXCEPT ![m] = AllGone(@)]
    /\ UNCHANGED <<scrollLockCounter, originalBodyStyle, bodyOverflow, attached, listeners,
                   focusTimeout, isVisible, handleKeyDown, pageOverflow>>
    /\ UNCHANGED <<alertVars, renderVars>>

\* Modal m is unmounted while open: its dialog leaves the DOM with it, then the
\* effect's cleanup runs; the instance's refs and state are gone.
Unmount(m) ==
    /\ phase[m] = "open"
    /\ LET ds == SelectSeq(domOrder, LAMBDA x : x # m)
           doms == DomSet \ {m}
           w0 == [World EXCEPT !.active = IF @[1] = m THEN Body ELSE @]
           w == EffectCleanup(w0, m, handleKeyDown[m], finalFocusRefCurrent(m), doms)
       IN  /\ Commit([w EXCEPT !.prev = ForgetModal([w.prev EXCEPT ![m] = Null], m),
                               !.focusable[m] = <<>>])
           /\ domOrder' = ds
           /\ lastEvent' = [NoEvent EXCEPT !.kind = "unmount", !.m = m,
                                           !.restored = w.restored,
                                           !.target = prevAtOpen[m],
                                           !.cancelled = focusTimeout[m]]
    /\ handleKeyDown' = [handleKeyDown EXCEPT ![m] = Handler(m, 0, FALSE, TRUE)]
    /\ phase' = [phase EXCEPT ![m] = "closed"]
    /\ props' = [props EXCEPT ![m] = DefaultProps]
    /\ content' = [content EXCEPT ![m] = EmptyContent]
    /\ prevAtOpen' = ForgetModal([prevAtOpen EXCEPT ![m] = Null], m)
    /\ UNCHANGED <<attached, pageOverflow>>
    /\ UNCHANGED <<alertVars, renderVars>>

\* The parent re-renders open modal m with a new onClose identity and
\* closeOnEscape = esc: handleKeyDown is re-created, so the effect's cleanup
\* runs and the effect runs again.
Rerender(m, esc) ==
    /\ phase[m] = "open"
    /\ LET w1 == EffectCleanup(World, m, handleKeyDown[m], finalFocusRefCurrent(m), DomSet)
           h == Handler(m, FreshId(w1.listeners, m), TRUE, esc)
           w2 == EffectSetup(w1, m, h)
       IN  /\ Commit(w2)
           /\ handleKeyDown' = [handleKeyDown EXCEPT ![m] = h]
           /\ lastEvent' = [NoEvent EXCEPT !.kind = "rerender", !.m = m,
                                           !.restored = w1.restored,
                                           !.cancelled = focusTimeout[m]]
    /\ props' = [props EXCEPT ![m].closeOnEscape = esc]
    /\ UNCHANGED <<attached, domOrder, phase, content, prevAtOpen, pageOverflow>>
    /\ UNCHANGED <<alertVars, renderVars>>

\* The 10 ms timer of modal m fires.
FocusTimeoutFires(m) ==
    /\ focusTimeout[m]
    /\ LET w == FocusTimeoutCallback([World EXCEPT !.timeout[m] = FALSE], m, DomSet)
       IN  Commit(w)
    /\ lastEvent' = [NoEvent EXCEPT !.kind = "timeout", !.m = m]
    /\ UNCHANGED <<attached, domOrder, phase, props, content, handleKeyDown, prevAtOpen,
                   pageOverflow>>
    /\ UNCHANGED <<alertVars, renderVars>>

\* A keydown event reaches document: the registered handlers run in order, then
\* the browser performs the default action unless it was prevented.
KeyDown(key, shift) ==
    /\ LET d == Dispatch([w |-> World, prevented |-> FALSE, steps |-> <<>>],
                         listeners, key, shift, DomSet)
           final == IF key = "Tab" /\ ~d.prevented
                    THEN DefaultTabTarget(d.w.active, shift)
                    ELSE d.w.active
       IN  /\ Commit([d.w EXCEPT !.active = final])
           /\ lastEvent' = [NoEvent EXCEPT !.kind = "keydown", !.key = key,
                                           !.shift = shift, !.prevented = d.prevented,
                                           !.steps = d.steps]
    /\ UNCHANGED <<attached, domOrder, phase, props, content, handleKeyDown, prevAtOpen,
                   pageOverflow>>
    /\ UNCHANGED <<alertVars, renderVars>>

\* The elements of the document a click can land on.
ClickTargets ==
    attached \cup {Backdrop(m) : m \in DomSet} \cup {Container(m) : m \in DomSet}
              \cup {e \in {Child(m, i) : m \in DomSet, i \in Slots} : InDocument(e, DomSet)}

\* A click event on target. It bubbles to the onClick of the backdrop that
\* contains the target: the backdrop of the modal the target belongs to, which
\* while the modal is exiting is still the element of its last open render.
\* (Focus moves at mousedown, which Modal does not handle.)
Click(target) ==
    /\ target \in ClickTargets
    /\ lastEvent' = [NoEvent EXCEPT
            !.kind = "click", !.target = target,
            !.steps = IF target[1] \in DomSet
                      THEN <<handleBackdropClick(props[target[1]], target[1], target, DomSet)>>
                      ELSE <<>>]
    /\ UNCHANGED <<scrollLockCounter, originalBodyStyle, bodyOverflow, activeElement, attached,
                   listeners, domOrder, phase, props, content, previousActiveElement,
                   focusTimeout, isVisible, focusableElements, handleKeyDown, prevAtOpen,
                   pageOverflow>>
    /\ UNCHANGED <<alertVars, renderVars>>

\* The user moves focus to a control of the host page while no modal is open.
PageFocus(e) ==
    /\ ~AnyOpen
    /\ e \in attached
    /\ e # activeElement
    /\ activeElement' = e
    /\ lastEvent' = OtherEvent
    /\ UNCHANGED <<scrollLockCounter, originalBodyStyle, bodyOverflow, attached, listeners,
                   domOrder, phase, props, content, previousActiveElement, focusTimeout,
                   isVisible, focusableElements, handleKeyDown, prevAtOpen, pageOverflow>>
    /\ UNCHANGED <<alertVars, renderVars>>

\* The host page removes one of its controls from the document.
Detach(e) ==
    /\ e \in attached
    /\ attached' = attached \ {e}
    /\ activeElement' = IF activeElement = e THEN Body ELSE activeElement
    /\ lastEvent' = OtherEvent
    /\ UNCHANGED <<scrollLockCounter, originalBodyStyle, bodyOverflow, listeners, domOrder,
                   phase, props, content, previousActiveElement, focusTimeout, isVisible,
                   focusableElements, handleKeyDown, prevAtOpen, pageOverflow>>
    /\ UNCHANGED <<alertVars, renderVars>>

\* The children of open modal m change: slot i now holds kind k (the element
\* that was there, if any, leaves the document).
ContentChange(m, i, k) ==
    /\ phase[m] = "open"
    /\ content[m][i] # k
    /\ props[m].initialFocusRef # i
    /\ content' = [content EXCEPT ![m][i] = k]
    /\ activeElement' = IF activeElement = Child(m, i) THEN Body ELSE activeElement
    /\ lastEvent' = OtherEvent
    /\ previousActiveElement' = ForgetElem(previousActiveElement, Child(m, i))
    /\ prevAtOpen' = ForgetElem(prevAtOpen, Child(m, i))
    /\ focusableElements' = [focusableElements EXCEPT ![m] = ForgetInList(@, Child(m, i))]
    /\ UNCHANGED <<scrollLockCounter, originalBodyStyle, bodyOverflow, attached, listeners,
                   domOrder, phase, props, focusTimeout, isVisible, handleKeyDown,
                   pageOverflow>>
    /\ UNCHANGED <<alertVars, renderVars>>

\* The host page sets body.style.overflow while no modal is open.
SetBodyOverflow(v) ==
    /\ ~AnyOpen
    /\ v # bodyOverflow
    /\ bodyOverflow' = v
    /\ pageOverflow' = v
    /\ lastEvent' = OtherEvent
    /\ UNCHANGED <<scrollLockCounter, originalBodyStyle, activeElement, attached, listeners,
                   domOrder, phase, props, content, previousActiveElement, focusTimeout,
                   isVisible, focusableElements, handleKeyDown, prevAtOpen>>
    /\ UNCHANGED <<alertVars, renderVars>>

\* ------------------------------------------------------------ specifications
\* Children a modal is opened with.
Contents == [Slots -> {"absent", "button"}]
OneButton == [i \in Slots |-> IF i = 1 THEN "button" ELSE "absent"]

\* Props whose initialFocusRef, when supplied, points at a rendered button of c.
PropsOk(p, c) == IF p.initialFocusRef = 0 THEN TRUE ELSE c[p.initialFocusRef] = "button"

AllProps ==
    [closeOnEscape : BOOLEAN, closeOnBackdropClick : BOOLEAN, hasRef : BOOLEAN,
     initialFocusRef : {0} \cup Slots, finalFocusRef : {Null, <<0, NumPage>>}]

Next ==
    \/ \E m \in Modals, p \in AllProps, c \in Contents : PropsOk(p, c) /\ Open(m, p, c)
    \/ \E m \in Modals : Close(m)
    \/ \E m \in Modals : ExitComplete(m)
    \/ \E m \in Modals : Unmount(m)
    \/ \E m \in Modals, esc \in BOOLEAN : Rerender(m, esc)
    \/ \E m \in Modals : FocusTimeoutFires(m)
    \/ \E key \in Keys, shift \in BOOLEAN : (key = "Escape" => ~shift) /\ KeyDown(key, shift)
    \/ \E e \in PageElems : Detach(e)
    \/ \E m \in Modals, i \in Slots, k \in Kinds : ContentChange(m, i, k)
    \/ \E t \in ClickTargets : Click(t)
    \/ \E v \in OverflowValues : SetBodyOverflow(v)
    \/ \E e \in PageElems : PageFocus(e)
    \/ \E p \in AlertPropsSet : AlertMount(p)
    \/ AlertClick
    \/ \E key \in AlertKeys : AlertKeyDown(key)
    \/ DismissTimerFires
    \/ AlertExitComplete
    \/ AlertUnmount

Spec == Init /\ [][Next]_vars

\* The scroll lock's environment: modals with default props and one button are
\* opened, re-rendered, closed and unmounted in any order on a page that sets
\* its own body overflow. The focus timers stay pending: their callback reads
\* and writes no scroll state.
NextScroll ==
    \/ \E m \in Modals : Open(m, DefaultProps, OneButton)
    \/ \E m \in Modals : Close(m)
    \/ \E m \in Modals : ExitComplete(m)
    \/ \E m \in Modals : Unmount(m)
    \/ \E m \in Modals : Rerender(m, TRUE)
    \/ \E v \in OverflowValues : SetBodyOverflow(v)

SpecScroll == Init /\ [][NextScroll]_vars

\* The focus trap's environment: one modal, with or without a forwarded ref
\* and an initialFocusRef, whose children change while it is open, and Tab /
\* Shift+Tab keydowns at any moment.
TrapProps ==
    [closeOnEscape : {TRUE}, closeOnBackdropClick : {TRUE}, hasRef : BOOLEAN,
     initialFocusRef : {0} \cup Slots, finalFocusRef : {Null}]

NextTrap ==
    \/ \E p \in TrapProps, c \in Contents : PropsOk(p, c) /\ Open(1, p, c)
    \/ Close(1)
    \/ ExitComplete(1)
    \/ Rerender(1, TRUE)
    \/ FocusTimeoutFires(1)
    \/ \E shift \in BOOLEAN : KeyDown("Tab", shift)
    \/ \E i \in Slots, k \in Kinds : ContentChange(1, i, k)

SpecTrap == Init /\ [][NextTrap]_vars

\* The environment of focus restoration: modals with one button, with or
\* without a finalFocusRef, opened from the page or from one another,
\* re-rendered, closed and unmounted in any order, while the page may remove
\* its controls.
RestoreProps ==
    [closeOnEscape : {TRUE}, closeOnBackdropClick : {TRUE}, hasRef : {FALSE},
     initialFocusRef : {0}, finalFocusRef : {Null, <<0, NumPage>>}]

NextRestore ==
    \/ \E m \in Nested, p \in RestoreProps : Open(m, p, OneButton)
    \/ \E m \in Nested : Close(m)
    \/ \E m \in Nested : ExitComplete(m)
    \/ \E m \in Nested : Unmount(m)
    \/ \E m \in Nested : Rerender(m, TRUE)
    \/ \E m \in Nested : FocusTimeoutFires(m)
    \/ \E e \in {<<0, 1>>, <<0, NumPage>>} : Detach(e)

SpecRestore == Init /\ [][NextRestore]_vars

\* The environment of dismissal by keyboard: stacked modals with every
\* combination of closeOnEscape and closeOnBackdropClick, re-rendered with
\* either value of closeOnEscape, and Escape keydowns at any moment.
KeyProps ==
    [closeOnEscape : BOOLEAN, closeOnBackdropClick : BOOLEAN, hasRef : {FALSE},
     initialFocusRef : {0}, finalFocusRef : {Null}]

NextKeys ==
    \/ \E m \in Modals, p \in KeyProps : Open(m, p, OneButton)
    \/ \E m \in Modals : Close(m)
    \/ \E m \in Modals : ExitComplete(m)
    \/ \E m \in Modals, esc \in BOOLEAN : Rerender(m, esc)
    \/ KeyDown("Escape", FALSE)

SpecKeys == Init /\ [][NextKeys]_vars

\* The environment of dismissal by either means: the same, with clicks on any
\* element of the document.
NextDismiss ==
    \/ \E m \in Modals, p \in KeyProps : Open(m, p, OneButton)
    \/ \E m \in Modals : Close(m)
    \/ \E m \in Modals : ExitComplete(m)
    \/ \E m \in Modals, esc \in BOOLEAN : Rerender(m, esc)
    \/ KeyDown("Escape", FALSE)
    \/ \E t \in ClickTargets : Click(t)

SpecDismiss == Init /\ [][NextDismiss]_vars

\* The modals that are open.
OpenModals == {m \in Modals : phase[m] = "open"}

\* The nested scenario: on a page with any body overflow and any control
\* focused, modals with default props are opened one inside another, each
\* after the initial focus of those already open has been assigned, and
\* closed in reverse order.
NextLifo ==
    \/ \E m \in Modals :
           /\ m = Cardinality(OpenModals) + 1
           /\ \A k \in OpenModals : ~focusTimeout[k]
           /\ Open(m, DefaultProps, OneButton)
    \/ \E m \in Modals : m = Cardinality(OpenModals) /\ Close(m)
    \/ \E m \in Modals : ExitComplete(m)
    \/ \E m \in Modals : FocusTimeoutFires(m)
    \/ \E v \in OverflowValues : SetBodyOverflow(v)
    \/ \E e \in PageElems : PageFocus(e)

SpecLifo == Init /\ [][NextLifo]_vars

\* Stacked modals closed in any order: on a page whose first control has focus
\* and keeps it unless a modal moves it, modals with default props and one
\* button are opened from whatever has focus, get their initial focus, and are
\* closed and leave the DOM in any order.
NextAnyOrder ==
    \/ \E m \in Modals : Open(m, DefaultProps, OneButton)
    \/ \E m \in Modals : FocusTimeoutFires(m)
    \/ \E m \in Modals : Close(m)
    \/ \E m \in Modals : ExitComplete(m)

SpecAnyOrder == Init /\ [][NextAnyOrder]_vars

\* The Alert's environment: it is mounted dismissible or not, clicked and
\* typed at while its element is displayed, its timers fire and its exit
\* animation ends in either order, and the parent may unmount it at any time.
NextAlert ==
    \/ \E p \in AlertPropsSet : AlertMount(p)
    \/ AlertClick
    \/ \E key \in AlertKeys : AlertKeyDown(key)
    \/ DismissTimerFires
    \/ AlertExitComplete
    \/ AlertUnmount

SpecAlert == Init /\ [][NextAlert]_vars

\* The same, with every scheduled timer eventually firing.
SpecAlertLive == SpecAlert /\ WF_vars(DismissTimerFires)

\* The stateless renders and evaluations, applied to every input of their
\* bounded sets, in a browser whose reduced-motion preference changes.
NextRender ==
    \/ \E name \in SubRegions, inside \in 0..NumModals, p \in SubRegionProps :
           RenderSubRegion(name, inside, p)
    \/ LoadAnimations
    \/ \E b \in BOOLEAN : SetReducedMotion(b)
    \/ \E t \in {transitions.fast, transitions.base} : CallGetTransition(t)
    \/ \E n \in PresetNames : UsePreset(n)
    \/ RenderAlertTransition
    \/ \E p \in ButtonPropsSet : RenderButton(p)
    \/ \E p \in CardPropsSet : RenderCard(p)

SpecRender == Init /\ [][NextRender]_vars

\* The focusable-element query alone, over every list of descendants.
NextFocusable == \E children \in ChildLists : QueryFocusable(children)

SpecFocusable == Init /\ [][NextFocusable]_vars

\* ------------------------------------------------------------------ claims
\* The modal's override of the body's scrolling is in force.
OverrideActive == scrollLockCounter > 0 /\ bodyOverflow = "hidden"

\* C1: after every open, re-render, close or unmount step, in any order, the
\* scroll override (body overflow 'hidden' held by the lock) is active if and
\* only if at least one modal is open.
C1_ScrollLockedIffOpen == OverrideActive <=> AnyOpen

\* C1 witness: of two stacked modals the outer one (opened first) has just been
\* closed, the inner one is still open and scrolling is still locked.
C1_Witness ==
    /\ lastEvent.kind = "close"
    /\ lastEvent.m = 1
    /\ domOrder = <<1, 2>>
    /\ phase[2] = "open"
    /\ bodyOverflow = "hidden"

\* C2: whenever no modal is open, body.style.overflow is exactly the value the
\* page gave it before the first modal opened (the empty string included), and
\* while modals are open the saved value is still that value: it is taken at
\* the 0-to-1 transition and never overwritten by later opens.
C2_OverflowRoundTrip ==
    IF AnyOpen THEN originalBodyStyle = pageOverflow
    ELSE bodyOverflow = pageOverflow

\* C2 witness: the last open modal has just closed after another modal was
\* opened and closed in between, and the page's own value "scroll" is back.
C2_Witness ==
    /\ lastEvent.kind = "close"
    /\ ~AnyOpen
    /\ \E m \in Modals : m # lastEvent.m /\ phase[m] = "exiting"
    /\ pageOverflow = "scroll"
    /\ bodyOverflow = "scroll"

\* C2 witness for the empty string is the same state with pageOverflow = "".
C2_WitnessEmpty ==
    /\ lastEvent.kind = "close"
    /\ ~AnyOpen
    /\ pageOverflow = ""
    /\ bodyOverflow = ""

\* The handler runs of the last event, when it was a Tab / Shift+Tab keydown.
TabSteps ==
    IF lastEvent.kind = "keydown" /\ lastEvent.key = "Tab"
    THEN {lastEvent.steps[k] : k \in 1..Len(lastEvent.steps)} ELSE {}

\* C3: after every Tab / Shift+Tab keydown dispatched while a modal is open,
\* wherever focus was (boundary, middle, container, or still on the trigger
\* before the initial-focus timer fired), the focused element is inside that
\* modal's subtree.
C3_FocusStaysInside ==
    lastEvent.kind = "keydown" =>
        \A m \in Modals : phase[m] = "open" => activeElement[1] = m

\* C3, second case: the same for a modal whose initial focus has already been
\* assigned inside it (the timer has fired and focus was inside the modal when
\* the key was pressed).
C3_FocusStaysInsideAfterInitialFocus ==
    \A st \in TabSteps :
        (phase[st.m] = "open" /\ isVisible[st.m] /\ st.before[1] = st.m)
            => activeElement[1] = st.m

\* C4: a handler run on Tab with the last focusable descendant focused moves
\* focus to the first and prevents default; on Shift+Tab with the first
\* focused it moves focus to the last and prevents default (one focusable
\* descendant: focus stays on it).
C4_TabWraps ==
    \A st \in TabSteps :
        LET fs == getFocusableElements(st.m) IN
        fs # <<>> =>
            /\ (~lastEvent.shift /\ st.before = fs[Len(fs)])
                   => (st.after = fs[1] /\ st.prevented)
            /\ (lastEvent.shift /\ st.before = fs[1])
                   => (st.after = fs[Len(fs)] /\ st.prevented)

\* The target the initial focus is specified to go to.
ExpectedInitialFocus(m) ==
    IF initialFocusRefCurrent(m) # Null THEN initialFocusRefCurrent(m)
    ELSE IF getFocusableElements(m) # <<>> THEN getFocusableElements(m)[1]
    ELSE Container(m)

\* C7: when the initial-focus timer of an open modal has run, focus is on the
\* initialFocusRef target if supplied, else on the first focusable descendant,
\* else on the modal container.
C7_InitialFocusTarget ==
    lastEvent.kind = "timeout" => activeElement = ExpectedInitialFocus(lastEvent.m)

\* C8: when the initial-focus timer has run for a modal with no focusable
\* descendant and no initialFocusRef, focus is on the modal container, with or
\* without a forwarded ref.
C8_FallbackToContainer ==
    (/\ lastEvent.kind = "timeout"
     /\ getFocusableElements(lastEvent.m) = <<>>
     /\ props[lastEvent.m].initialFocusRef = 0)
        => activeElement = Container(lastEvent.m)

\* C9: a handler run on Tab or Shift+Tab for a modal with zero focusable
\* descendants prevents default and leaves the focused element unchanged; the
\* event's default is prevented, and when that handler is the only listener
\* the focused element after the event is the one before it.
C9_ZeroFocusableSuppressesTab ==
    \A st \in TabSteps :
        getFocusableElements(st.m) = <<>> =>
            /\ st.prevented
            /\ st.after = st.before
            /\ lastEvent.prevented
            /\ Len(lastEvent.steps) = 1 => activeElement = st.before

\* C9 witness: Shift+Tab was pressed with focus on the container of an open
\* modal that has no focusable descendant.
C9_Witness ==
    /\ lastEvent.kind = "keydown"
    /\ lastEvent.key = "Tab"
    /\ lastEvent.shift
    /\ phase[1] = "open"
    /\ getFocusableElements(1) = <<>>
    /\ Len(lastEvent.steps) = 1
    /\ lastEvent.steps[1].before = Container(1)

\* C5: right after a modal closed (isOpen true to false), focus is on the
\* finalFocusRef target when a finalFocusRef is supplied (and its target is
\* mounted), and otherwise, with no finalFocusRef, on the element that was
\* focused immediately before the modal opened, provided that element is still
\* in the document and can take focus.
C5_CloseRestoresFocus ==
    lastEvent.kind = "close" =>
        IF props[lastEvent.m].finalFocusRef # Null
        THEN finalFocusRefCurrent(lastEvent.m) # Null
                 => activeElement = finalFocusRefCurrent(lastEvent.m)
        ELSE CanFocus(lastEvent.target, DomSet) => activeElement = lastEvent.target

\* C5 witness: a modal with a finalFocusRef, opened while another element had
\* focus, has just closed with both elements in the document.
C5_Witness ==
    /\ lastEvent.kind = "close"
    /\ finalFocusRefCurrent(lastEvent.m) # Null
    /\ lastEvent.target # finalFocusRefCurrent(lastEvent.m)
    /\ CanFocus(lastEvent.target, DomSet)

\* C6: restoring focus to the pre-open element (or the finalFocusRef target)
\* is performed only by the event that closes or unmounts the modal, never
\* while isOpen is still true.
C6_RestoreOnlyAtClose ==
    lastEvent.restored => lastEvent.kind \in {"close", "unmount"}

\* The number of times the last event's handlers invoked modal m's onClose,
\* and whether modal m's handler called preventDefault.
CloseCalls(m) ==
    Cardinality({k \in 1..Len(lastEvent.steps) :
                    lastEvent.steps[k].m = m /\ lastEvent.steps[k].closed})
PreventedBy(m) ==
    \E k \in 1..Len(lastEvent.steps) :
        lastEvent.steps[k].m = m /\ lastEvent.steps[k].prevented

\* C10: on an Escape keydown while a modal is open, that modal's handler
\* prevents default and invokes its onClose exactly once if its closeOnEscape
\* is enabled, and invokes nothing and prevents nothing if it is disabled,
\* whatever closeOnBackdropClick is.
C10_EscapeDismiss ==
    (lastEvent.kind = "keydown" /\ lastEvent.key = "Escape") =>
        \A m \in Modals : phase[m] = "open" =>
            IF props[m].closeOnEscape
            THEN CloseCalls(m) = 1 /\ PreventedBy(m) /\ lastEvent.prevented
            ELSE CloseCalls(m) = 0 /\ ~PreventedBy(m)

\* C10 witness: Escape was pressed with two modals open, one with closeOnEscape
\* on and closeOnBackdropClick off, the other the reverse.
C10_Witness ==
    /\ lastEvent.kind = "keydown"
    /\ lastEvent.key = "Escape"
    /\ phase[1] = "open"
    /\ phase[2] = "open"
    /\ props[1].closeOnEscape /\ ~props[1].closeOnBackdropClick
    /\ ~props[2].closeOnEscape /\ props[2].closeOnBackdropClick

C11_WitnessBackdrop ==
    /\ lastEvent.kind = "click"
    /\ lastEvent.target = Backdrop(1)
    /\ CloseCalls(1) = 1

\* C12: between events, document has exactly one 'keydown' listener per open
\* modal, namely that modal's current handleKeyDown: every open added one,
\* every close, re-render and unmount-while-open removed the one it had added;
\* the unmount ran the cleanup without invoking onClose.
C12_ListenerSymmetry ==
    /\ Len(listeners) = Cardinality(OpenModals)
    /\ \A m \in OpenModals :
           Cardinality({k \in 1..Len(listeners) : listeners[k] = handleKeyDown[m]}) = 1
    /\ \A k \in 1..Len(listeners) : listeners[k].m \in OpenModals
    /\ lastEvent.kind = "unmount" =>
           /\ lastEvent.steps = <<>>
           /\ \A k \in 1..Len(listeners) : listeners[k].m # lastEvent.m

\* C12 witness: one of two open modals was unmounted while open; the other
\* one's listener is the only one left and scrolling is still locked.
C12_Witness ==
    /\ lastEvent.kind = "unmount"
    /\ Cardinality(OpenModals) = 1
    /\ Len(listeners) = 1
    /\ scrollLockCounter = 1

\* C13: a modal that is not open has no pending initial-focus timer and is not
\* visible, and the timer's callback only ever runs for a modal that is open:
\* closing or unmounting before the timer fired cancelled it.
C13_TimerCancelledOnClose ==
    /\ \A m \in Modals : phase[m] # "open" => (~focusTimeout[m] /\ ~isVisible[m])
    /\ lastEvent.kind = "timeout" => phase[lastEvent.m] = "open"

\* C13 witness: a modal was closed while its timer was still pending, and focus
\* is outside it.
C13_Witness ==
    /\ lastEvent.kind = "close"
    /\ lastEvent.cancelled
    /\ ~focusTimeout[lastEvent.m]
    /\ activeElement[1] # lastEvent.m

\* C13 witness for the unmount case.
C13_WitnessUnmount ==
    /\ lastEvent.kind = "unmount"
    /\ lastEvent.cancelled
    /\ ~focusTimeout[lastEvent.m]

\* C14: once the Alert is unmounted no dismiss timer is left pending, and a
\* timer callback (with its onDismiss call) only ever runs for a mounted Alert.
C14_DismissTimerCancelledOnUnmount ==
    /\ alertMounted = "unmounted" => dismissTimers = 0
    /\ alertEvent.kind = "timer" => alertEvent.mounted

\* C15: whatever dismiss requests were made, at most one removal timer was
\* ever scheduled and onDismiss was invoked at most once; a request made while
\* the alert was already exiting was not accepted.
C15_DismissAtMostOnce ==
    /\ dismissScheduled <= 1
    /\ onDismissCalls <= 1

\* One step of the Alert's state.
AlertStateStep ==
    /\ (alertMounted = "new" /\ alertMounted' = "mounted")
           => (alertIsVisible' /\ ~alertIsExiting')
    /\ alertMounted = "mounted" =>
           \/ UNCHANGED <<alertIsVisible, alertIsExiting>>
           \/ (alertIsVisible /\ ~alertIsExiting /\ alertIsVisible' /\ alertIsExiting')
           \/ (alertIsVisible /\ alertIsExiting /\ ~alertIsVisible' /\ alertIsExiting')
    /\ ~alertIsVisible' => alertElement' = "none"

\* C16: the Alert starts visible (isVisible true, isExiting false) and every
\* step leaves its state as it is or moves it from visible to exiting or from
\* exiting to removed; a removed alert displays nothing and, removed having no
\* successor, stays removed.
C16_AlertMonotonic == [][AlertStateStep]_vars

\* C16 witness: a second timer fired on an alert that was already removed.
C16_Witness ==
    /\ alertMounted = "mounted"
    /\ ~alertIsVisible
    /\ alertIsExiting
    /\ alertEvent.kind = "timer"
    /\ dismissScheduled - dismissTimers >= 2

\* C17: onDismiss is invoked only by the timer callback and never while the
\* alert is still in the visible state; and an accepted dismiss request on a
\* mounted alert leads, the timer firing, to the alert being removed with
\* onDismiss (when supplied) invoked, unless the parent unmounted it first.
C17_DismissalCompletes ==
    /\ [](onDismissCalls > 0 => alertIsExiting)
    /\ [](alertEvent.invoked => alertEvent.kind = "timer")
    /\ (alertMounted = "mounted" /\ alertIsExiting)
           ~> \/ alertMounted = "unmounted"
              \/ ~alertIsVisible /\ (alertProps.hasOnDismiss => onDismissCalls > 0)

\* C17 witness: a mounted alert with an onDismiss has been removed by its timer
\* and onDismiss was invoked.
C17_Witness ==
    /\ alertMounted = "mounted"
    /\ alertProps.hasOnDismiss
    /\ alertEvent.kind = "timer"
    /\ alertEvent.invoked
    /\ ~alertIsVisible
    /\ onDismissCalls = 1

\* C18: dismissible is false by default, and an alert that is not dismissible
\* stays visible with no timer ever scheduled and onDismiss never invoked: the
\* click and keydown handlers accept nothing and prevent nothing.
C18_NotDismissibleInert ==
    /\ ~DefaultAlertProps.dismissible
    /\ (alertMounted # "new" /\ ~alertProps.dismissible) =>
           /\ alertIsVisible
           /\ ~alertIsExiting
           /\ dismissTimers = 0
           /\ dismissScheduled = 0
           /\ onDismissCalls = 0
           /\ ~alertEvent.accepted
           /\ ~alertEvent.prevented
           /\ ~alertEvent.invoked

\* C18 witness: Enter was pressed on a mounted alert that is not dismissible.
C18_Witness ==
    /\ alertMounted = "mounted"
    /\ ~alertProps.dismissible
    /\ alertEvent.kind = "keydown"
    /\ alertEvent.key = "Enter"

\* C18 witness for the click.
C18_WitnessClick ==
    /\ alertMounted = "mounted"
    /\ ~alertProps.dismissible
    /\ alertEvent.kind = "click"

\* C19: in the nested scenario the scroll-lock counter is the number of open
\* modals (k after the k-th open, one less after each close), scrolling is
\* locked while it is positive, each close leaves focus on the element that
\* was focused immediately before that modal opened, and when the counter is
\* back to 0 the page's own overflow is restored.
C19_NestedLifo ==
    /\ scrollLockCounter = Cardinality(OpenModals)
    /\ scrollLockCounter > 0 => bodyOverflow = "hidden"
    /\ scrollLockCounter = 0 => bodyOverflow = pageOverflow
    /\ lastEvent.kind = "close" => activeElement = lastEvent.target

\* C19 witness: the inner of two nested modals, opened from the outer one's
\* button on a page with overflow "scroll", has just closed: the counter is 1,
\* scrolling is still locked and focus is back on the outer modal's button.
C19_Witness ==
    /\ lastEvent.kind = "close"
    /\ lastEvent.m = 2
    /\ phase[1] = "open"
    /\ scrollLockCounter = 1
    /\ bodyOverflow = "hidden"
    /\ pageOverflow = "scroll"
    /\ activeElement = Child(1, 1)

\* C19 witness for the last close: the outer modal closed after the inner one.
C19_WitnessLast ==
    /\ lastEvent.kind = "close"
    /\ lastEvent.m = 1
    /\ phase[2] = "exiting"
    /\ scrollLockCounter = 0
    /\ pageOverflow = "scroll"
    /\ bodyOverflow = "scroll"
    /\ activeElement = <<0, NumPage>>

\* A step that is an Escape keydown or a click.
DismissStep == lastEvent'.kind \in {"keydown", "click"}

\* C20: an Escape keydown or a click, whether or not it invoked onClose, leaves
\* every modal's open state, the scroll-lock counter, the body overflow, the
\* registered keydown listeners and the captured pre-open focus elements as
\* they were.
C20_DismissOnlyNotifies ==
    [][DismissStep => UNCHANGED <<phase, scrollLockCounter, originalBodyStyle,
                                  bodyOverflow, listeners, handleKeyDown,
                                  previousActiveElement, domOrder>>]_vars

\* C20 witness: Escape invoked the onClose of both of two open modals, which
\* are still open with the counter at 2 and both listeners registered.
C20_Witness ==
    /\ lastEvent.kind = "keydown"
    /\ CloseCalls(1) = 1
    /\ CloseCalls(2) = 1
    /\ phase[1] = "open"
    /\ phase[2] = "open"
    /\ scrollLockCounter = 2
    /\ Len(listeners) = 2

\* C20 witness for the click: a backdrop click invoked onClose of a modal that
\* is still open.
C20_WitnessClick ==
    /\ lastEvent.kind = "click"
    /\ CloseCalls(2) = 1
    /\ phase[2] = "open"
    /\ scrollLockCounter > 0
    /\ previousActiveElement[2] # Null

\* C21: a Modal sub-region component rendered with no enclosing Modal throws
\* during that render and renders nothing; rendered inside a Modal it does
\* not throw.
C21_SubRegionNeedsModal ==
    rendered.kind = "subregion" =>
        /\ rendered.out.threw <=> rendered.inside = 0
        /\ rendered.out.threw => (rendered.out.tag = "none" /\ rendered.out.error # "")
        /\ ~rendered.out.threw => rendered.out.tag = "div"

\* C21 witness: ModalFooter was rendered outside every Modal.
C21_Witness ==
    /\ rendered.kind = "subregion"
    /\ rendered.name = "ModalFooter"
    /\ rendered.inside = 0
    /\ rendered.out.threw

\* C21 witness for a render inside a Modal.
C21_WitnessInside ==
    /\ rendered.kind = "subregion"
    /\ rendered.name = "ModalHeader"
    /\ rendered.inside = 1
    /\ ~rendered.out.threw

\* C22: every evaluated transition reflects the reduced-motion preference of
\* the moment it is evaluated: with the preference set it is the transition it
\* was built from with only the duration changed, to 0.01 s; without it, that
\* transition unchanged.
C22_ReducedMotionAtEvaluation ==
    rendered.kind = "transition" =>
        rendered.out = IF rendered.reduce
                       THEN [rendered.base EXCEPT !.duration = ReducedDuration]
                       ELSE rendered.base

\* C23: the rendered button is disabled, with aria-disabled, if and only if
\* disabled or loading is true; loading sets aria-busy, shows the spinner and
\* hides both icons; and the hover and tap animations are on only when the
\* button is neither disabled nor loading and disableAnimations is false.
C23_ButtonDisabledAndLoading ==
    rendered.kind = "button" =>
        LET p == rendered.props
            out == rendered.out
            disabled == p.disabled
            loading == p.loading
        IN  /\ out.disabled <=> (disabled \/ loading)
            /\ out.ariaDisabled <=> (disabled \/ loading)
            /\ out.ariaBusy <=> loading
            /\ out.spinner <=> loading
            /\ loading => (~out.leftIcon /\ ~out.rightIcon)
            /\ ~loading => ((out.leftIcon <=> p.leftIcon) /\ (out.rightIcon <=> p.rightIcon))
            /\ out.whileHover <=> (~disabled /\ ~loading /\ ~p.disableAnimations)
            /\ out.whileTap <=> (~disabled /\ ~loading /\ ~p.disableAnimations)

\* C23 witness: a button with loading true, disabled false and both icons.
C23_Witness ==
    /\ rendered.kind = "button"
    /\ rendered.props.loading
    /\ ~rendered.props.disabled
    /\ rendered.props.leftIcon
    /\ rendered.props.rightIcon
    /\ rendered.out.disabled

\* C24: a Card is a button element of type button with the click handler and
\* the interactive class if and only if onClick is provided, and otherwise a
\* div without them; either way its classes include those of the elevation
\* (medium by default) and the padding (md by default), the hover class iff
\* hover is true, and the caller's className.
C24_CardInteractiveIffOnClick ==
    rendered.kind = "card" =>
        LET p == rendered.props
            out == rendered.out
            classes == ClassesOf(out.classes)
        IN  /\ out.tag = "button" <=> p.onClick
            /\ out.tag \in {"button", "div"}
            /\ p.onClick => (out.type = "button" /\ out.onClick /\ "interactive" \in classes)
            /\ ~p.onClick => (~out.onClick /\ "interactive" \notin classes)
            /\ ElevationClass(IF p.elevation = Undefined THEN "medium" ELSE p.elevation)
                   \in classes
            /\ PaddingClass(IF p.padding = Undefined THEN "md" ELSE p.padding) \in classes
            /\ "hover" \in classes <=> p.hover
            /\ p.className # Undefined => p.className \in classes

\* C24 witness: a Card with onClick and no other prop was rendered.
C24_Witness ==
    /\ rendered.kind = "card"
    /\ rendered.props.onClick
    /\ rendered.props.elevation = Undefined
    /\ rendered.props.padding = Undefined
    /\ rendered.out.tag = "button"

\* C24 witness for the div: no onClick, hover and a className.
C24_WitnessDiv ==
    /\ rendered.kind = "card"
    /\ ~rendered.props.onClick
    /\ rendered.props.hover
    /\ rendered.props.className = "custom-class"
    /\ rendered.out.tag = "div"

\* An element on the interactive allow-list.
AllowListed(el) ==
    \/ el.tag \in {"button", "input", "textarea", "select", "details", "summary"}
    \/ el.tag = "a" /\ el.href
    \/ el.tabindex # "none"

\* C26: the query returns, in document order, exactly the descendants that are
\* allow-listed, not disabled, not hidden (display none, visibility hidden or
\* aria-hidden) and not given tabindex "-1"; the container is never returned.
C26_FocusableExactly ==
    rendered.kind = "focusable" =>
        /\ rendered.out =
               SelectSeq([k \in 1..Len(rendered.children) |-> k],
                         LAMBDA k : LET el == rendered.children[k] IN
                                    /\ AllowListed(el)
                                    /\ ~el.disabled
                                    /\ el.hidden = "no"
                                    /\ el.tabindex # "-1")
        /\ \A k \in 1..Len(rendered.out) : rendered.out[k] # 0

\* C25: every Tab / Shift+Tab keydown handled by an open modal recomputes the
\* focusable-descendant list: after the keydown the list the handler wrapped
\* with is the modal's current focusable content, whatever was added, removed
\* or disabled since the modal opened.
C25_ListRecomputedOnTab ==
    \A st \in TabSteps :
        phase[st.m] = "open" => focusableElements[st.m] = getFocusableElements(st.m)

\* C27: a re-render of a modal that stays open (new onClose identity or
\* changed closeOnEscape) leaves the element focused inside the modal focused,
\* and the scroll-lock counter and the body overflow as they were; so does the
\* timer the re-render schedules, when it fires.
C27_RerenderKeepsSession ==
    [][/\ (lastEvent'.kind = "rerender" /\ activeElement[1] = lastEvent'.m)
              => /\ activeElement' = activeElement
                 /\ scrollLockCounter' = scrollLockCounter
                 /\ bodyOverflow' = bodyOverflow
       /\ (/\ lastEvent.kind = "rerender"
           /\ lastEvent'.kind = "timeout"
           /\ lastEvent'.m = lastEvent.m
           /\ activeElement[1] = lastEvent.m)
              => activeElement' = activeElement]_vars

\* What a Tab keydown does in a modal that keeps its own ref, given the
\* element focused before it.
TabOutcome(m, before, shift) ==
    LET fs == getFocusableElements(m) IN
    IF fs = <<>> THEN [after |-> before, prevented |-> TRUE]
    ELSE IF shift /\ before = fs[1] THEN [after |-> fs[Len(fs)], prevented |-> TRUE]
    ELSE IF ~shift /\ before = fs[Len(fs)] THEN [after |-> fs[1], prevented |-> TRUE]
    ELSE [after |-> before, prevented |-> FALSE]

\* C28: a modal given a forwarded ref behaves as one without: its timer puts
\* the initial focus on the same element, each of its Tab / Shift+Tab handler
\* runs focuses the same element and prevents default in the same cases, and
\* closing it restores focus to the same element.
C28_ForwardedRefTransparent ==
    \A m \in Modals : props[m].hasRef =>
        /\ (lastEvent.kind = "timeout" /\ lastEvent.m = m)
               => activeElement = ExpectedInitialFocus(m)
        /\ \A st \in TabSteps : st.m = m =>
               /\ st.after = TabOutcome(m, st.before, lastEvent.shift).after
               /\ st.prevented = TabOutcome(m, st.before, lastEvent.shift).prevented
        /\ (lastEvent.kind = "close" /\ lastEvent.m = m
                /\ CanFocus(lastEvent.target, DomSet))
               => activeElement = lastEvent.target

\* The modals whose onClose the last event's handlers invoked, in the order of
\* the invocations.
ClosedInOrder ==
    LET closed == SelectSeq(lastEvent.steps, LAMBDA st : st.closed)
    IN  [k \in 1..Len(closed) |-> closed[k].m]

\* The open modals with closeOnEscape enabled, in the order they were opened.
EscapableInOpenOrder ==
    SelectSeq(domOrder, LAMBDA m : phase[m] = "open" /\ props[m].closeOnEscape)

\* C29: one Escape keydown invokes the onClose of every open modal whose
\* closeOnEscape is enabled, once each, in the order the modals were opened.
C29_EscapeReachesAllInOpenOrder ==
    (lastEvent.kind = "keydown" /\ lastEvent.key = "Escape") =>
        ClosedInOrder = EscapableInOpenOrder

\* C29 without the order: every open modal with closeOnEscape enabled is
\* notified once, and no other modal is.
C29_EscapeReachesAllOnce ==
    (lastEvent.kind = "keydown" /\ lastEvent.key = "Escape") =>
        /\ {ClosedInOrder[k] : k \in 1..Len(ClosedInOrder)}
               = {m \in Modals : phase[m] = "open" /\ props[m].closeOnEscape}
        /\ \A j, k \in 1..Len(ClosedInOrder) : ClosedInOrder[j] = ClosedInOrder[k] => j = k

\* C30: whenever every opened modal has been closed, in whatever order, focus
\* is on the element that was focused before the first modal opened (here the
\* page's first control, which nothing but a modal takes focus from), and not
\* on an element of a closed modal.
C30_FocusBackAfterAnyCloseOrder ==
    (~AnyOpen /\ lastEvent.kind = "close") =>
        /\ activeElement = <<0, 1>>
        /\ activeElement[1] \notin {m \in Modals : phase[m] # "open"}

====
